---- MODULE Spec2Model ----
(***************************************************************************)
(* A model of the device state reconciliation engine of mac-controls       *)
(* (src/src/audio.rs, AudioState) together with the part of the CoreAudio  *)
(* property store it reads and writes.                                     *)
(*                                                                         *)
(* Levels are f32 scalars in [0.0, 1.0] in the source; here they are the   *)
(* integers ZERO..FULL, one unit standing for 1/LevelSteps.                *)
(* Option<T> is a sequence: None is <<>> and Some(x) is <<x>>.             *)
(* Vec indices (active_input, active_output) are 0-based as in the source. *)
(* `mutes` is a Vec<AudioDeviceID> in the source; only the number of       *)
(* occurrences of an id is observable (contains / position / remove), so   *)
(* it is kept as the function id |-> number of occurrences.                *)
(***************************************************************************)
EXTENDS FiniteSets, Integers, Sequences, TLC

\* Number of level steps between 0.0 and 1.0.
LevelSteps == 2

\* Number of changes the OS and the hardware make in one run of Spec.
MaxOsChanges == 1

\* Number of changes the OS and the hardware make in one run of SpecDeep.
DeepOsChanges == 2

ZERO == 0
FULL == LevelSteps
Levels == ZERO..FULL

None == <<>>
Some(x) == <<x>>
IsSome(o) == o # <<>>
Unwrap(o) == o[1]
UnwrapOr(o, d) == IF IsSome(o) THEN o[1] ELSE d

Channel == {"Input", "Output"}

\* kAudioObjectUnknown: the id the OS reports when there is no default device.
UnknownDevice == 0

(***************************************************************************)
(* The hardware: two endpoints.                                            *)
(*   1  a headset: input and output volume, both settable, a mute flag in  *)
(*      both directions (the device class of the Monterey bug)             *)
(*   2  a microphone: input only, its volume readable but not settable,    *)
(*      a mute flag on input                                               *)
(***************************************************************************)
DeviceIds == {1, 2}

\* AudioObjectHasProperty(kAudioDevicePropertyVolumeScalar) can succeed.
HasVolume(id, channel) ==
    \/ id = 1
    \/ id = 2 /\ channel = "Input"

\* AudioObjectHasProperty(kAudioDevicePropertyMute).
HasMute(id, channel) ==
    \/ id = 1
    \/ id = 2 /\ channel = "Input"

\* AudioObjectIsPropertySettable(kAudioDevicePropertyVolumeScalar).
Settable(id, channel) == id # 2

\* Names are compared only for order; equal numbers are equal names.
device_name(id) == IF id = 1 THEN 2 ELSE 1

device_uid(id) == id

VARIABLES
    devices,        \* AudioState.devices: Seq of Device
    mutes,          \* AudioState.mutes: id |-> occurrences in the Vec
    active_input,   \* AudioState.active_input: Option<usize>
    active_output,  \* AudioState.active_output: Option<usize>
    panicked,       \* "none" while the process runs, else how it ended: a panic message or "exit"
    osDevs,         \* kAudioHardwarePropertyDevices: the ids enumerated
    osVol,          \* [id][channel]: Option<level>, kAudioDevicePropertyVolumeScalar
    osMute,         \* [id][channel]: Option<BOOLEAN>, kAudioDevicePropertyMute
    osDefault,      \* [channel]: the default device id, or UnknownDevice
    osLeft,         \* changes the OS and the hardware may still make in this run
    op,             \* the last step taken: [name, channel]
    trip,           \* a mute round trip under way: Option<[id, channel, cache]>
    taken,          \* the <<id, channel>> whose native mute flag the last step found set
    osEnumOk,       \* the OS answers the query for the device list
    osWriteOk,      \* the OS accepts AudioObjectSetPropertyData
    queue,          \* the mpsc channel of main(): the Actions sent and not yet received
    mode,           \* AppState.mode
    handling        \* the Actions the consumer loop has received and not yet handled

vars == <<devices, mutes, active_input, active_output, panicked,
          osDevs, osVol, osMute, osDefault, osLeft, op, trip, taken,
          osEnumOk, osWriteOk, queue, mode, handling>>

----------------------------------------------------------------------------
(* Helpers over the two Vecs *)

Ids(devs) == {devs[i].id : i \in DOMAIN devs}

\* iter().position(|d| d.id == id): 0-based, None when absent
position(devs, id) ==
    IF \E i \in DOMAIN devs : devs[i].id = id
    THEN Some((CHOOSE i \in DOMAIN devs :
                  devs[i].id = id /\ \A j \in DOMAIN devs : devs[j].id = id => i <= j) - 1)
    ELSE None

\* Vec::remove(i), i 0-based
RemoveAt(devs, i) ==
    [k \in 1..(Len(devs) - 1) |-> IF k <= i THEN devs[k] ELSE devs[k + 1]]

\* mutes.contains(&id)
contains(m, id) == m[id] > 0

\* mutes.push(id)
push(m, id) == [m EXCEPT ![id] = @ + 1]

\* if let Some(i) = mutes.iter().position(..) { mutes.remove(i) }
remove_first(m, id) == IF m[id] > 0 THEN [m EXCEPT ![id] = @ - 1] ELSE m

ChanField(channel) == IF channel = "Input" THEN "input" ELSE "output"

----------------------------------------------------------------------------
(* The Accessor: reads and writes of the OS property store *)

volume_level(vol, id) == <<vol[id]["Input"], vol[id]["Output"]>>

device_mutes(mute, id) == <<mute[id]["Input"], mute[id]["Output"]>>

default_device(channel) == osDefault[channel]

\* Writes the scalar where query_settable answers true; skips otherwise.
set_volume(vol, id, channel, volume) ==
    IF Settable(id, channel) /\ IsSome(vol[id][channel])
    THEN [vol EXCEPT ![id][channel] = Some(volume)]
    ELSE vol

\* set_mute with the write lost.
set_mute_lost(mute, id, channel, enabled) == mute

set_mute(mute, id, channel, enabled) ==
    [mute EXCEPT ![id][channel] = Some(enabled)]

----------------------------------------------------------------------------
(* The engine.  w is [devices, mutes, osVol, osMute, taken]: the part of   *)
(* the state update() reads and writes, and the native mute flags it has   *)
(* found set so far.                                                       *)

update_channel_no_push(id, vol_state, m, level, is_muted) ==
    [vol |-> [vol_state EXCEPT !.enabled = TRUE, !.level = level],
     mutes |-> IF level > ZERO /\ is_muted THEN remove_first(m, id) ELSE m]

update_channel(id, vol_state, m, level, is_muted) ==
    [vol |-> [vol_state EXCEPT !.enabled = TRUE, !.level = level],
     mutes |-> IF level > ZERO /\ is_muted THEN remove_first(m, id)
               ELSE IF level = ZERO /\ ~is_muted THEN push(m, id)
               ELSE m]

\* The channel mute_check takes over: Input whenever the input flag exists.
takeover_channel(mute_in, mute_out) ==
    IF IsSome(mute_in) THEN "Input" ELSE "Output"

mute_check(w, id) ==
    LET dm == device_mutes(w.osMute, id)
        mute_in == dm[1]
        mute_out == dm[2]
        new_in == IsSome(mute_in) /\ Unwrap(mute_in)
        new_out == IsSome(mute_out) /\ Unwrap(mute_out)
        chan == takeover_channel(mute_in, mute_out)
        i == Unwrap(position(w.devices, id)) + 1
        f == ChanField(chan)
        v == w.devices[i][f]
    IN  IF new_in \/ new_out
        THEN [devices |-> [w.devices EXCEPT ![i][f] =
                              [v EXCEPT !.cache = v.level, !.level = ZERO]],
              mutes |-> IF contains(w.mutes, id) THEN w.mutes ELSE push(w.mutes, id),
              osVol |-> set_volume(w.osVol, id, chan, ZERO),
              osMute |-> set_mute(w.osMute, id, chan, FALSE),
              taken |-> w.taken \cup {<<id, c>> : c \in {c \in Channel :
                            IsSome(w.osMute[id][c]) /\ Unwrap(w.osMute[id][c])}}]
        ELSE w

\* One pass of the body of `for id in all.intersection(&curr)`.
update_existing(w, id) ==
    LET is_muted == contains(w.mutes, id)
        i == Unwrap(position(w.devices, id)) + 1
        lv == volume_level(w.osVol, id)
        r1 == IF IsSome(lv[1])
              THEN update_channel(id, w.devices[i].input, w.mutes, Unwrap(lv[1]), is_muted)
              ELSE [vol |-> w.devices[i].input, mutes |-> w.mutes]
        r2 == IF IsSome(lv[2])
              THEN update_channel(id, w.devices[i].output, r1.mutes, Unwrap(lv[2]), is_muted)
              ELSE [vol |-> w.devices[i].output, mutes |-> r1.mutes]
    IN  mute_check([w EXCEPT !.devices[i].input = r1.vol,
                             !.devices[i].output = r2.vol,
                             !.mutes = r2.mutes], id)

new_device(vol, id) ==
    LET lv == volume_level(vol, id)
    IN  [id |-> id, uid |-> device_uid(id), name |-> device_name(id),
         input |-> [enabled |-> IsSome(lv[1]), level |-> UnwrapOr(lv[1], ZERO),
                    cache |-> UnwrapOr(lv[1], ZERO)],
         output |-> [enabled |-> IsSome(lv[2]), level |-> UnwrapOr(lv[2], ZERO),
                     cache |-> UnwrapOr(lv[2], ZERO)]]

\* The add branch of `for id in all.symmetric_difference(&curr)`.
add_device(w, id) ==
    mute_check([w EXCEPT !.devices = Append(w.devices, new_device(w.osVol, id))], id)

\* The remove branch left out.
remove_device_kept(w, id) == w

\* The remove branch.
remove_device(w, id) ==
    LET p == position(w.devices, id)
    IN  [w EXCEPT !.devices = IF IsSome(p) THEN RemoveAt(w.devices, Unwrap(p)) ELSE @,
                  !.mutes = remove_first(w.mutes, id)]

RECURSIVE FoldSet(_, _, _)
\* F(w, id) for every id of S.  The passes of one loop touch disjoint ids
\* and the removals keep the order of what stays, so the order in which a
\* HashSet yields these ids does not show in the result.
FoldSet(F(_, _), w, S) ==
    IF S = {} THEN w
    ELSE LET id == CHOOSE x \in S : \A y \in S : x <= y
         IN  FoldSet(F, F(w, id), S \ {id})

RECURSIVE FoldSeq(_, _, _)
FoldSeq(F(_, _), w, s) ==
    IF s = <<>> THEN w ELSE FoldSeq(F, F(w, Head(s)), Tail(s))

\* The orders in which a HashSet may yield the ids of S: the new devices
\* are pushed in that order.
Orders(S) ==
    {s \in [1..Cardinality(S) -> S] : \A i, j \in DOMAIN s : i # j => s[i] # s[j]}

\* The states AudioState::update can leave, before the selection is looked
\* up, from w with `all` the ids enumerated.
update(w, all) ==
    LET curr == Ids(w.devices)
        w1 == FoldSet(update_existing, w, all \cap curr)
        w2 == FoldSet(remove_device, w1, curr \ all)
    IN  {FoldSeq(add_device, w2, order) : order \in Orders(all \ curr)}

\* The Selection left as it was.
select_kept(devs, prev, channel) == prev

\* if let Some(i) = devices.iter().position(|d| d.id == default_device(..))
select(devs, prev, channel) ==
    LET p == position(devs, default_device(channel))
    IN  IF IsSome(p) THEN p ELSE prev

World == [devices |-> devices, mutes |-> mutes, osVol |-> osVol, osMute |-> osMute,
          taken |-> {}]

\* set_volume(id, channel, ..) reaches set_audio_object_prop(..).unwrap() and
\* the OS rejects the write: the unwrap panics.
WriteRejected(vol, id, channel) ==
    ~osWriteOk /\ Settable(id, channel) /\ IsSome(vol[id][channel])

\* update() from world w reaches a mute_check that takes over: its
\* set_volume or, at the latest, its set_mute(..) unwraps the rejected write.
\* No pass of update() writes to the OS before that.
TakeoverRejected(w) ==
    ~osWriteOk /\ \E id \in osDevs : \E c \in Channel : w.osMute[id][c] = Some(TRUE)

\* The effect of self.update() on the variables, from world w.
\* device_ids() panics (expect) when the OS does not answer the query for
\* the device list; what was written before the refresh stays written.
DoUpdate(w) ==
    IF osEnumOk /\ TakeoverRejected(w)
    THEN /\ panicked' = "Unable to set audio object prop"
         /\ devices' = w.devices
         /\ mutes' = w.mutes
         /\ osVol' = w.osVol
         /\ osMute' = w.osMute
         /\ taken' = {}
         /\ UNCHANGED <<active_input, active_output>>
    ELSE IF osEnumOk
    THEN /\ \E r \in update(w, osDevs) :
              /\ devices' = r.devices
              /\ mutes' = r.mutes
              /\ osVol' = r.osVol
              /\ osMute' = r.osMute
              /\ taken' = r.taken
              /\ active_input' = select(r.devices, active_input, "Input")
              /\ active_output' = select(r.devices, active_output, "Output")
         /\ panicked' = panicked
    ELSE /\ panicked' = "Query audio object size"
         /\ devices' = w.devices
         /\ mutes' = w.mutes
         /\ osVol' = w.osVol
         /\ osMute' = w.osMute
         /\ taken' = {}
         /\ UNCHANGED <<active_input, active_output>>

\* The selection of the input, whatever the channel.
Active_input(channel) == active_input

Active(channel) == IF channel = "Input" THEN active_input ELSE active_output

\* A panic ends the process: nothing runs after it.
Panic(reason) ==
    /\ panicked' = reason
    /\ taken' = {}
    /\ UNCHANGED <<devices, mutes, active_input, active_output, osVol, osMute>>

\* An engine operation: it runs in the consumer loop of main(), which is
\* back at recv() when the operation returns.
Step(name, channel) ==
    /\ panicked = "none"
    /\ op' = [name |-> name, channel |-> channel]
    /\ handling' = <<>>
    /\ UNCHANGED <<osDevs, osDefault, osLeft, osEnumOk, osWriteOk, queue, mode>>

\* Action::Poll => state.audio.update()
Poll ==
    /\ Step("update", "")
    /\ DoUpdate(World)
    /\ UNCHANGED trip

\* clamp taken away.
clamp_open(x) == x

clamp(x) == IF x < ZERO THEN ZERO ELSE IF x > FULL THEN FULL ELSE x

\* The amounts move_volume is called with: one step up or down (0.1 of the
\* range in main.rs).
Amounts == {-1, 1}

move_volume(channel, amount) ==
    /\ Step("move_volume", channel)
    /\ trip' = None
    /\ IF ~IsSome(Active(channel))
       THEN /\ taken' = {}
            /\ UNCHANGED <<devices, mutes, active_input, active_output, panicked,
                           osVol, osMute>>
       ELSE LET i == Unwrap(Active(channel)) + 1
                f == ChanField(channel)
            IN  IF i > Len(devices)
                THEN Panic("index out of bounds")
                ELSE LET id == devices[i].id
                         vol_ref == devices[i][f]
                         next_level == clamp(vol_ref.level + amount)
                     IN  IF vol_ref.enabled
                         THEN IF id \notin osDevs
                              THEN Panic("query_size unwrap")
                              ELSE IF WriteRejected(osVol, id, channel)
                              THEN Panic("Unable to set audio object prop")
                              ELSE DoUpdate([World EXCEPT
                                        !.devices[i][f].level = next_level,
                                        !.devices[i][f].cache = next_level,
                                        !.osVol = set_volume(osVol, id, channel, next_level)])
                         ELSE DoUpdate(World)

\* The round trip that starts when toggle_mute(channel) mutes the selected
\* device: its id, the channel and the restore point.
TripStart(channel) ==
    IF IsSome(Active(channel)) /\ Unwrap(Active(channel)) < Len(devices)
    THEN LET d == devices[Unwrap(Active(channel)) + 1]
             v == d[ChanField(channel)]
         IN  IF v.enabled /\ ~contains(mutes, d.id) /\ v.cache > ZERO
             THEN Some([id |-> d.id, channel |-> channel, cache |-> v.cache])
             ELSE None
    ELSE None

toggle_mute(channel) ==
    /\ Step("toggle_mute", channel)
    /\ trip' = IF IsSome(trip) THEN None ELSE TripStart(channel)
    /\ IF ~IsSome(Active(channel))
       THEN /\ taken' = {}
            /\ UNCHANGED <<devices, mutes, active_input, active_output, panicked,
                           osVol, osMute>>
       ELSE LET i == Unwrap(Active(channel)) + 1
                f == ChanField(channel)
            IN  IF i > Len(devices)
                THEN Panic("index out of bounds")
                ELSE LET id == devices[i].id
                         vol_state == devices[i][f]
                     IN  IF vol_state.enabled
                         THEN IF id \notin osDevs
                              THEN Panic("query_size unwrap")
                              ELSE IF WriteRejected(osVol, id, channel)
                              THEN Panic("Unable to set audio object prop")
                              ELSE DoUpdate([World EXCEPT !.osVol =
                                        set_volume(osVol, id, channel,
                                            IF contains(mutes, id) THEN vol_state.cache
                                            ELSE ZERO)])
                         ELSE DoUpdate(World)

----------------------------------------------------------------------------
(* The read accessors *)

\* The accessor without the test of `enabled`.
volume_state_any(devs, m, id, channel) ==
    LET p == position(devs, id)
    IN  IF IsSome(p)
        THEN LET vol == devs[Unwrap(p) + 1][ChanField(channel)]
             IN  Some(<<vol.level, contains(m, id)>>)
        ELSE None

\* AudioState::input / AudioState::output
volume_state(devs, m, id, channel) ==
    LET p == position(devs, id)
    IN  IF IsSome(p)
        THEN LET vol == devs[Unwrap(p) + 1][ChanField(channel)]
             IN  IF vol.enabled THEN Some(<<vol.level, contains(m, id)>>) ELSE None
        ELSE None

input(devs, m, id) == volume_state(devs, m, id, "Input")

output(devs, m, id) == volume_state(devs, m, id, "Output")

RECURSIVE InsertByName(_, _)
\* Puts t behind the entries whose name is not greater: a stable sort step.
InsertByName(list, t) ==
    IF list = <<>> THEN <<t>>
    ELSE IF Head(list)[4].name <= t[4].name
         THEN <<Head(list)>> \o InsertByName(Tail(list), t)
         ELSE <<t>> \o list

RECURSIVE SortByName(_)
SortByName(list) ==
    IF list = <<>> THEN <<>>
    ELSE InsertByName(SortByName(SubSeq(list, 1, Len(list) - 1)), list[Len(list)])

\* device_list() without the sort.
device_list_unsorted(devs, a_in, a_out, m) ==
    [i \in DOMAIN devs |->
        <<a_in = Some(i - 1), a_out = Some(i - 1), contains(m, devs[i].id), devs[i]>>]

\* (active_in, active_out, muted, device), sorted by name
device_list(devs, a_in, a_out, m) ==
    SortByName([i \in DOMAIN devs |->
        <<a_in = Some(i - 1), a_out = Some(i - 1), contains(m, devs[i].id), devs[i]>>])

\* The entry device_list() gives for a cached id.
ListEntry(devs, a_in, a_out, m, id) ==
    LET l == device_list(devs, a_in, a_out, m)
    IN  l[CHOOSE k \in DOMAIN l : l[k][4].id = id]

----------------------------------------------------------------------------
(* The OS and the hardware changing under the engine *)

OsStep ==
    /\ panicked = "none"
    /\ osLeft > 0
    /\ osLeft' = osLeft - 1
    /\ op' = [name |-> "os", channel |-> ""]
    /\ trip' = None
    /\ taken' = {}
    /\ UNCHANGED <<devices, mutes, active_input, active_output, panicked>>
    /\ UNCHANGED <<osEnumOk, osWriteOk, queue, mode, handling>>

AbsentVol == [c \in Channel |-> None]
AbsentMute == [c \in Channel |-> None]

\* The scalars a device shows when it is connected: the headset comes up
\* at one step in both directions, the microphone at any level.
PlugVols(id) == {v \in [Channel -> {None} \cup {Some(l) : l \in Levels}] :
                    /\ \A c \in Channel : IsSome(v[c]) <=> HasVolume(id, c)
                    /\ id = 1 => \A c \in Channel : v[c] = Some(1)}

\* The native mute flags a device can show when it is connected.
PlugMutes(id) == {m \in [Channel -> {None, Some(FALSE), Some(TRUE)}] :
                    \A c \in Channel : IsSome(m[c]) <=> HasMute(id, c)}

\* A device is connected.
OsPlug(id) ==
    /\ id \notin osDevs
    /\ OsStep
    /\ osDevs' = osDevs \cup {id}
    /\ \E v \in PlugVols(id) : osVol' = [osVol EXCEPT ![id] = v]
    /\ \E m \in PlugMutes(id) : osMute' = [osMute EXCEPT ![id] = m]
    /\ UNCHANGED osDefault

\* A device is disconnected: its properties are gone.
OsUnplug(id) ==
    /\ id \in osDevs
    /\ OsStep
    /\ osDevs' = osDevs \ {id}
    /\ osVol' = [osVol EXCEPT ![id] = AbsentVol]
    /\ osMute' = [osMute EXCEPT ![id] = AbsentMute]
    /\ UNCHANGED osDefault

\* The scalar is changed from outside the engine (a knob, the OS UI).
OsSetVolume(id, channel, l) ==
    /\ id \in osDevs
    /\ HasVolume(id, channel)
    /\ osVol[id][channel] # Some(l)
    /\ OsStep
    /\ osVol' = [osVol EXCEPT ![id][channel] = Some(l)]
    /\ UNCHANGED <<osDevs, osMute, osDefault>>

\* The native mute flag is changed from outside the engine.
OsSetMute(id, channel, b) ==
    /\ id \in osDevs
    /\ HasMute(id, channel)
    /\ osMute[id][channel] # Some(b)
    /\ OsStep
    /\ osMute' = [osMute EXCEPT ![id][channel] = Some(b)]
    /\ UNCHANGED <<osDevs, osVol, osDefault>>

\* The default device changes; it may name a device the engine has not
\* cached or no longer enumerates, or no device at all.
OsSetDefault(channel, id) ==
    /\ osDefault[channel] # id
    /\ OsStep
    /\ osDefault' = [osDefault EXCEPT ![channel] = id]
    /\ UNCHANGED <<osDevs, osVol, osMute>>

----------------------------------------------------------------------------

\* The OS when the program starts: any of the devices connected, no native
\* mute, each default naming a connected device of
\* that direction when there is one.
BootOs ==
    /\ osEnumOk = TRUE
    /\ osWriteOk = TRUE
    /\ osDevs \in SUBSET DeviceIds
    /\ osVol \in [DeviceIds -> [Channel -> {None} \cup {Some(l) : l \in Levels}]]
    /\ osMute \in [DeviceIds -> [Channel -> {None, Some(FALSE)}]]
    /\ \A id \in osDevs : osVol[id] \in PlugVols(id) /\ osMute[id] \in PlugMutes(id)
    /\ \A id \in DeviceIds \ osDevs : osVol[id] = AbsentVol /\ osMute[id] = AbsentMute
    /\ osDefault \in [Channel -> DeviceIds \cup {UnknownDevice}]
    /\ \A c \in Channel :
          IF \E id \in osDevs : HasVolume(id, c)
          THEN osDefault[c] \in osDevs /\ HasVolume(osDefault[c], c)
          ELSE osDefault[c] = UnknownDevice

\* AudioState::new(): the empty state, then update() against the OS.
new ==
    /\ \E r \in update([devices |-> <<>>, mutes |-> [id \in DeviceIds |-> 0],
                        osVol |-> osVol, osMute |-> osMute, taken |-> {}], osDevs) :
          /\ devices = r.devices
          /\ taken = r.taken
          /\ mutes = r.mutes
          /\ active_input = select(r.devices, None, "Input")
          /\ active_output = select(r.devices, None, "Output")
    /\ panicked = "none"
    /\ op = [name |-> "new", channel |-> ""]
    /\ trip = None

\* AppState::new() and main() before the threads are spawned: View mode,
\* nothing sent, the consumer not yet in its loop.
AppStart ==
    /\ mode = "View"
    /\ queue = <<>>
    /\ handling = <<>>

Init == BootOs /\ new /\ AppStart /\ osLeft = MaxOsChanges

InitDeep == BootOs /\ new /\ AppStart /\ osLeft = DeepOsChanges

Next ==
    \/ Poll
    \/ \E c \in Channel, a \in Amounts : move_volume(c, a)
    \/ \E c \in Channel : toggle_mute(c)
    \/ \E id \in DeviceIds : OsPlug(id)
    \/ \E id \in DeviceIds : OsUnplug(id)
    \/ \E id \in DeviceIds, c \in Channel, l \in Levels : OsSetVolume(id, c, l)
    \/ \E id \in DeviceIds, c \in Channel, b \in BOOLEAN : OsSetMute(id, c, b)
    \/ \E c \in Channel, id \in DeviceIds \cup {UnknownDevice} : OsSetDefault(c, id)

\* At most MaxOsChanges changes of the OS in a run.
Spec == Init /\ [][Next]_vars

\* At most DeepOsChanges changes of the OS in a run.
SpecDeep == InitDeep /\ [][Next]_vars

----------------------------------------------------------------------------
(* Properties *)

\* The cached Device with this id.
Dev(devs, id) == devs[Unwrap(position(devs, id)) + 1]

\* The scalar the OS reads for a direction that has one.
OsLevel(vol, id, channel) == Unwrap(vol[id][channel])

\* A refresh is about to meet a cached device whose native input-mute flag
\* has become true while its input level is above zero.
InputFlagRaised(id) ==
    /\ id \in Ids(devices)
    /\ osMute[id]["Input"] = Some(TRUE)
    /\ IsSome(osVol[id]["Input"])
    /\ OsLevel(osVol, id, "Input") > ZERO

\* What the takeover leaves: flag cleared, scalar zero, id in the Mute Set,
\* cache at the level L read before.
TakenOver(id, L) ==
    /\ osMute'[id]["Input"] = Some(FALSE)
    /\ osVol'[id]["Input"] = Some(ZERO)
    /\ contains(mutes', id)
    /\ Dev(devices', id).input.cache = L

\* C1, for every device: for a cached device whose native input-mute flag has
\* become true at input level L > 0, the next refresh leaves the flag false,
\* the OS input scalar 0, the id in the Mute Set and the input cache = L.
C1_TakeoverAnyDevice ==
    [][\A id \in DeviceIds :
          (op'.name = "update" /\ InputFlagRaised(id))
              => TakenOver(id, OsLevel(osVol, id, "Input"))]_vars

\* C1, for settable devices: the same when the input scalar is settable; the
\* write of zero is skipped on a scalar that is not.
C1_TakeoverSettable ==
    [][\A id \in DeviceIds :
          (op'.name = "update" /\ InputFlagRaised(id) /\ Settable(id, "Input"))
              => TakenOver(id, OsLevel(osVol, id, "Input"))]_vars

\* A refresh has taken over the raised input flag of a settable device.
C1_Witness ==
    /\ op.name = "update"
    /\ \E id \in Ids(devices) :
          /\ <<id, "Input">> \in taken
          /\ Settable(id, "Input")
          /\ osVol[id]["Input"] = Some(ZERO)
          /\ Dev(devices, id).input.cache > ZERO
          /\ contains(mutes, id)

\* The other direction.
Other(channel) == IF channel = "Input" THEN "Output" ELSE "Input"

\* toggle_mute(channel) is about to mute the selected device d: both of its
\* directions are enabled, it is enumerated and not in the Mute Set, and the
\* other direction is above zero in the cache and in the OS.
MutesOneDirection(channel, d) ==
    /\ IsSome(Active(channel))
    /\ Unwrap(Active(channel)) < Len(devices)
    /\ d = devices[Unwrap(Active(channel)) + 1]
    /\ d.id \in osDevs
    /\ d.input.enabled /\ d.output.enabled
    /\ ~contains(mutes, d.id)
    /\ d[ChanField(Other(channel))].level > ZERO
    /\ osVol[d.id][Other(channel)] = Some(d[ChanField(Other(channel))].level)

\* C2: after toggle_mute(Input) mutes the selected device, which has both
\* directions enabled and output level > 0, the OS output scalar and the
\* output native-mute flag are unchanged and output(id) reports engine-muted
\* = false; symmetrically for toggle_mute(Output) and input(id).
C2_OtherDirectionNotMarked ==
    [][\A c \in Channel : \A d \in {devices[i] : i \in DOMAIN devices} :
          (op'.name = "toggle_mute" /\ op'.channel = c /\ MutesOneDirection(c, d))
              => /\ osVol'[d.id][Other(c)] = osVol[d.id][Other(c)]
                 /\ osMute'[d.id][Other(c)] = osMute[d.id][Other(c)]
                 /\ volume_state(devices', mutes', d.id, Other(c))
                        = Some(<<d[ChanField(Other(c))].level, FALSE>>)]_vars

\* The cached device set: ids with, per direction, enabled, level and cache.
DeviceSet(devs) ==
    {[id |-> devs[i].id, input |-> devs[i].input, output |-> devs[i].output] :
        i \in DOMAIN devs}

\* C3: a refresh that directly follows a refresh, with no OS change in
\* between, leaves the cached device set and the Selection as the first
\* refresh left them.
C3_RefreshIdempotent ==
    [][(op.name = "update" /\ op'.name = "update")
          => /\ DeviceSet(devices') = DeviceSet(devices)
             /\ active_input' = active_input
             /\ active_output' = active_output]_vars

\* The second toggle_mute of a round trip is about to run: the first one
\* muted device t.id in direction t.channel at cache t.cache, only poll
\* refreshes came in between, and the device is still the selected one.
SecondToggle(t) ==
    /\ IsSome(Active(t.channel))
    /\ Unwrap(Active(t.channel)) < Len(devices)
    /\ devices[Unwrap(Active(t.channel)) + 1].id = t.id

\* C4: toggle_mute(direction) on the selected device, direction enabled, not
\* in the Mute Set, cache = c > 0, then any number of poll refreshes with no
\* OS change, then toggle_mute(direction) again: the OS scalar of that
\* direction is c.
C4_RoundTripRestores ==
    [][(IsSome(trip) /\ op'.name = "toggle_mute"
            /\ op'.channel = Unwrap(trip).channel /\ SecondToggle(Unwrap(trip)))
          => osVol'[Unwrap(trip).id][Unwrap(trip).channel]
                 = Some(Unwrap(trip).cache)]_vars

\* The engine alone, the OS and the hardware at rest, with move_volume
\* called with amounts of either sign up to more than the whole range.
WideAmounts == Amounts \cup {-(FULL + 1), FULL + 1}

NextQuiet ==
    \/ Poll
    \/ \E c \in Channel, a \in WideAmounts : move_volume(c, a)
    \/ \E c \in Channel : toggle_mute(c)

SpecQuiet == Init /\ [][NextQuiet]_vars

\* move_volume(channel, ..) is about to write to the selected device d: the
\* direction is enabled and settable, the device is enumerated, and no
\* native mute flag is up that would have the refresh zero the scalar again.
MovesSelected(channel, d) ==
    /\ IsSome(Active(channel))
    /\ Unwrap(Active(channel)) < Len(devices)
    /\ d = devices[Unwrap(Active(channel)) + 1]
    /\ d.id \in osDevs
    /\ d[ChanField(channel)].enabled
    /\ Settable(d.id, channel)
    /\ \A c \in Channel : osMute[d.id][c] # Some(TRUE)

\* min(1, max(0, level + delta)), written out.
Clamped(level, delta) ==
    IF level + delta < ZERO THEN ZERO
    ELSE IF level + delta > FULL THEN FULL
    ELSE level + delta

\* C5: move_volume leaves the OS scalar, the cached level and the cache of
\* the selected direction at min(1, max(0, level + delta)) for every delta
\* and every starting level, so a level at a boundary stays there under a
\* delta pointing outwards; no cached level or cache is ever outside [0, 1].
C5_Clamping ==
    /\ [](\A i \in DOMAIN devices :
            /\ devices[i].input.level \in Levels /\ devices[i].input.cache \in Levels
            /\ devices[i].output.level \in Levels /\ devices[i].output.cache \in Levels)
    /\ [][\A c \in Channel, a \in WideAmounts :
            \A d \in {devices[i] : i \in DOMAIN devices} :
              (move_volume(c, a) /\ MovesSelected(c, d))
                 => LET next == Clamped(d[ChanField(c)].level, a)
                    IN  /\ osVol'[d.id][c] = Some(next)
                        /\ Dev(devices', d.id)[ChanField(c)].level = next
                        /\ Dev(devices', d.id)[ChanField(c)].cache = next]_vars

\* move_volume has driven the selected output to the upper boundary.
C5_Witness ==
    /\ op = [name |-> "move_volume", channel |-> "Output"]
    /\ IsSome(active_output)
    /\ Unwrap(active_output) < Len(devices)
    /\ devices[Unwrap(active_output) + 1].output.level = FULL
    /\ devices[Unwrap(active_output) + 1].output.cache = FULL
    /\ osVol[devices[Unwrap(active_output) + 1].id]["Output"] = Some(FULL)

\* C6: after every refresh the cached ids are exactly the ids the OS
\* enumerated, each cached once, and the level of every direction the OS
\* gave a scalar for is that scalar, or 0 where the refresh took the device
\* over for a native mute flag.
C6_CacheReflectsOs ==
    [][op'.name = "update"
          => /\ Ids(devices') = osDevs
             /\ Len(devices') = Cardinality(osDevs)
             /\ \A i \in DOMAIN devices' : \A c \in Channel :
                   IsSome(osVol[devices'[i].id][c])
                      => /\ devices'[i][ChanField(c)].enabled
                         /\ \/ devices'[i][ChanField(c)].level
                                  = OsLevel(osVol, devices'[i].id, c)
                            \/ /\ devices'[i][ChanField(c)].level = ZERO
                               /\ \E f \in Channel : <<devices'[i].id, f>> \in taken']_vars

\* A refresh has cached both devices and taken one of them over.
C6_Witness ==
    /\ op.name = "update"
    /\ osDevs = DeviceIds
    /\ Ids(devices) = DeviceIds
    /\ Len(devices) = 2
    /\ taken # {}
    /\ \E i \in DOMAIN devices : devices[i].input.level > ZERO

\* C7: every id in the Mute Set is the id of a cached device; an id that
\* has left the enumeration is out of the Mute Set after the next refresh.
C7_MutesAreCached ==
    \A id \in DeviceIds : contains(mutes, id) => id \in Ids(devices)

\* A refresh is about to discover id: it is enumerated, not cached, and
\* none of its native mute flags is set.
Discovers(id) ==
    /\ id \in osDevs
    /\ id \notin Ids(devices)
    /\ \A c \in Channel : osMute[id][c] # Some(TRUE)

\* C8: the Device a refresh creates for an id that is not in the cache has,
\* for every readable direction, cache = level = the OS scalar just read,
\* and device_list() reports it as not engine-muted, whatever the id's cache
\* or mute status was before it was removed.
C8_FreshOnDiscovery ==
    [][\A id \in DeviceIds :
          (op'.name = "update" /\ Discovers(id))
              => /\ \A c \in Channel :
                      IsSome(osVol[id][c])
                         => /\ Dev(devices', id)[ChanField(c)].level = OsLevel(osVol, id, c)
                            /\ Dev(devices', id)[ChanField(c)].cache = OsLevel(osVol, id, c)
                 /\ ListEntry(devices', active_input', active_output', mutes', id)[3]
                        = FALSE]_vars

\* The is-active marker device_list() shows for a cached id in a direction.
Marker(devs, a_in, a_out, m, id, channel) ==
    ListEntry(devs, a_in, a_out, m, id)[IF channel = "Input" THEN 1 ELSE 2]

\* C9: when a refresh finds that the default device the OS reports for a
\* direction is the id of no cached device, every device that stays in the
\* cache keeps the is-active marker of that direction it had before the
\* refresh, also when the refresh removed other devices.
C9_MarkersStay ==
    [][\A c \in Channel :
          (op'.name = "update" /\ default_device(c) \notin Ids(devices'))
              => \A id \in Ids(devices) \cap Ids(devices') :
                    Marker(devices', active_input', active_output', mutes', id, c)
                        = Marker(devices, active_input, active_output, mutes, id, c)]_vars

\* C10: input(id) / output(id) give (level, id in Mute Set) of the direction
\* for a cached device that has the direction enabled, and None for a
\* direction that is not enabled and for an id that is not cached.
C10_Accessors ==
    \A id \in DeviceIds \cup {UnknownDevice} : \A c \in Channel :
        LET r == IF c = "Input" THEN input(devices, mutes, id)
                 ELSE output(devices, mutes, id)
        IN  IF \E i \in DOMAIN devices :
                  devices[i].id = id /\ devices[i][ChanField(c)].enabled
            THEN \E i \in DOMAIN devices :
                    /\ devices[i].id = id
                    /\ r = Some(<<devices[i][ChanField(c)].level, mutes[id] > 0>>)
            ELSE r = None

\* The headset and the input-only microphone at level zero are cached:
\* input(1) is (one step, not muted) and output(2) is None, which is not
\* what input(2) gives for a level of zero.
C10_Witness ==
    /\ Ids(devices) = {1, 2}
    /\ input(devices, mutes, 1) = Some(<<1, FALSE>>)
    /\ output(devices, mutes, 1) = Some(<<FULL, FALSE>>)
    /\ output(devices, mutes, 2) = None
    /\ input(devices, mutes, 2)[1][1] = ZERO

----------------------------------------------------------------------------
(* device_list() over any cache: devices that may share a name, any        *)
(* Selection and any Mute Set.                                             *)

\* Longest device Vec device_list() is applied to.
MaxListLen == 3

\* Ids and names the devices of such a Vec are drawn from.
ListIds == 1..MaxListLen
ListNames == {1, 2}

ListVolume == [enabled |-> TRUE, level |-> ZERO, cache |-> ZERO]

ListDevices ==
    {[id |-> i, uid |-> i, name |-> n, input |-> ListVolume, output |-> ListVolume] :
        i \in ListIds, n \in ListNames}

\* The device Vecs: no id twice.
ListCaches ==
    UNION {{s \in [1..n -> ListDevices] :
               \A i, j \in 1..n : i # j => s[i].id # s[j].id} : n \in 0..MaxListLen}

\* An engine state with such a cache; the OS plays no part.
InitList ==
    /\ devices \in ListCaches
    /\ mutes \in [ListIds -> {0, 1}]
    /\ active_input \in {None} \cup {Some(i) : i \in 0..MaxListLen}
    /\ active_output \in {None} \cup {Some(i) : i \in 0..MaxListLen}
    /\ panicked = "none"
    /\ AppStart
    /\ osEnumOk = TRUE
    /\ osWriteOk = TRUE
    /\ osDevs = {}
    /\ osVol = [id \in DeviceIds |-> AbsentVol]
    /\ osMute = [id \in DeviceIds |-> AbsentMute]
    /\ osDefault = [c \in Channel |-> UnknownDevice]
    /\ osLeft = 0
    /\ op = [name |-> "new", channel |-> ""]
    /\ trip = None
    /\ taken = {}

\* A call of device_list(&self): it borrows the state immutably.
CallDeviceList ==
    /\ op' = [name |-> "device_list", channel |-> ""]
    /\ UNCHANGED <<devices, mutes, active_input, active_output, panicked,
                   osDevs, osVol, osMute, osDefault, osLeft, trip, taken,
                   osEnumOk, osWriteOk, queue, mode, handling>>

NextList == CallDeviceList

SpecList == InitList /\ [][NextList]_vars

\* l lists the devices of the cache in the order p (a permutation of the
\* Vec positions), with the flags of each.
ListsInOrder(l, p) ==
    \A k \in DOMAIN l :
        l[k] = <<active_input = Some(p[k] - 1), active_output = Some(p[k] - 1),
                 mutes[devices[p[k]].id] > 0, devices[p[k]]>>

\* p goes up by name, and by Vec position among equal names.
NameOrder(p) ==
    \A k, j \in DOMAIN p :
        k < j => \/ devices[p[k]].name < devices[p[j]].name
                 \/ devices[p[k]].name = devices[p[j]].name /\ p[k] < p[j]

\* C11: device_list() gives one tuple per cached device, by name ascending
\* and in cache order among equal names, each with the flags (selected
\* input, selected output, id in the Mute Set); at most one tuple is marked
\* active input and at most one active output; the call changes no engine
\* state.
C11_DeviceList ==
    /\ [](LET l == device_list(devices, active_input, active_output, mutes)
          IN  /\ Len(l) = Len(devices)
              /\ \E p \in Orders(DOMAIN devices) : ListsInOrder(l, p) /\ NameOrder(p)
              /\ Cardinality({k \in DOMAIN l : l[k][1]}) <= 1
              /\ Cardinality({k \in DOMAIN l : l[k][2]}) <= 1)
    /\ [][op'.name = "device_list"
            => UNCHANGED <<devices, mutes, active_input, active_output>>]_vars

\* device_list() was called on a cache of two devices of one name behind a
\* device of a greater name, the last one selected for input and muted.
C11_Witness ==
    /\ op.name = "device_list"
    /\ Len(devices) = 3
    /\ devices[1].name > devices[2].name
    /\ devices[2].name = devices[3].name
    /\ active_input = Some(2)
    /\ mutes[devices[3].id] > 0
    /\ device_list(devices, active_input, active_output, mutes)[2][1]

----------------------------------------------------------------------------

\* The Selection of a direction, as the fields of AudioState hold it.
Selected(channel) == IF channel = "Input" THEN active_input ELSE active_output

\* C12: move_volume(direction, ..) with no device selected for the
\* direction writes nothing to the OS, leaves devices, Mute Set and Selection
\* as they are and raises no error.
C12_MoveUnselectedNoOp ==
    [][\A c \in Channel :
          (op'.name = "move_volume" /\ op'.channel = c /\ Selected(c) = None)
              => /\ UNCHANGED <<devices, mutes, active_input, active_output>>
                 /\ UNCHANGED <<osVol, osMute>>
                 /\ panicked' = "none"]_vars

\* move_volume(Output, ..) has run with no output selected, while the cache
\* was behind the OS: a refresh would have changed it.
C12_Witness ==
    /\ op = [name |-> "move_volume", channel |-> "Output"]
    /\ active_output = None
    /\ active_input # None
    /\ panicked = "none"
    /\ Ids(devices) # osDevs

\* toggle_mute(channel) has nothing to toggle: no device is selected for the
\* direction, or the direction is not enabled on the selected device.
NothingToToggle(channel) ==
    \/ Selected(channel) = None
    \/ /\ Unwrap(Selected(channel)) < Len(devices)
       /\ ~devices[Unwrap(Selected(channel)) + 1][ChanField(channel)].enabled

\* C13: toggle_mute(direction) with no device selected for the direction, or
\* with the direction not enabled on the selected device, writes no OS scalar
\* and no native mute flag and leaves the cached devices, the Mute Set and
\* the Selection as they are.
C13_ToggleNothingNoOp ==
    [][\A c \in Channel :
          (op'.name = "toggle_mute" /\ op'.channel = c /\ NothingToToggle(c))
              => /\ UNCHANGED <<devices, mutes, active_input, active_output>>
                 /\ UNCHANGED <<osVol, osMute>>]_vars

\* C14: after every refresh the native mute flag of both directions of
\* every cached device reads false, whatever flags the OS showed before.
C14_FlagsCleared ==
    [][op'.name = "update"
          => \A id \in Ids(devices') : \A c \in Channel :
                osMute'[id][c] # Some(TRUE)]_vars

\* A command on channel is about to act on the selected device d, whose
\* direction is enabled and readable but has no settable scalar; the cache
\* agrees with the OS and no native mute flag is up.
ActsOnUnsettable(channel, d) ==
    /\ IsSome(Selected(channel))
    /\ Unwrap(Selected(channel)) < Len(devices)
    /\ d = devices[Unwrap(Selected(channel)) + 1]
    /\ d.id \in osDevs
    /\ d[ChanField(channel)].enabled
    /\ ~Settable(d.id, channel)
    /\ osVol[d.id][channel] = Some(d[ChanField(channel)].level)
    /\ \A c \in Channel : osMute[d.id][c] # Some(TRUE)

\* C16: after move_volume or toggle_mute on a selected device whose
\* direction has no settable scalar, the OS scalar is unchanged, the cached
\* level is that scalar and the cached cache is what it was before the
\* command.
C16_SkippedWriteKeepsCache ==
    [][\A c \in Channel : \A d \in {devices[i] : i \in DOMAIN devices} :
          (op'.name \in {"move_volume", "toggle_mute"} /\ op'.channel = c
                /\ ActsOnUnsettable(c, d))
              => /\ osVol'[d.id][c] = osVol[d.id][c]
                 /\ Dev(devices', d.id)[ChanField(c)].level = OsLevel(osVol, d.id, c)
                 /\ Dev(devices', d.id)[ChanField(c)].cache = d[ChanField(c)].cache]_vars

----------------------------------------------------------------------------
(* Transient absence: the scalar of a connected device stops answering.   *)

\* AudioObjectHasProperty turns false for the scalar of a direction of an
\* enumerated device; OsSetVolume brings it back.
OsHideVolume(id, channel) ==
    /\ id \in osDevs
    /\ IsSome(osVol[id][channel])
    /\ OsStep
    /\ osVol' = [osVol EXCEPT ![id][channel] = None]
    /\ UNCHANGED <<osDevs, osMute, osDefault>>

NextAbsence ==
    \/ Next
    \/ \E id \in DeviceIds, c \in Channel : OsHideVolume(id, c)

SpecAbsence == Init /\ [][NextAbsence]_vars

\* A refresh is about to find no scalar for a direction of a cached,
\* enumerated device that had one.
ScalarGone(id, channel) ==
    /\ id \in Ids(devices)
    /\ id \in osDevs
    /\ Dev(devices, id)[ChanField(channel)].enabled
    /\ osVol[id][channel] = None

\* C17: when a refresh finds the scalar of a direction of a cached device
\* not present, the direction is disabled after the refresh, input(id) /
\* output(id) give None and not the stale level, and no error is raised.
C17_AbsentIsDisabled ==
    [][\A id \in DeviceIds : \A c \in Channel :
          (op'.name = "update" /\ ScalarGone(id, c))
              => /\ panicked' = "none"
                 /\ ~Dev(devices', id)[ChanField(c)].enabled
                 /\ volume_state(devices', mutes', id, c) = None]_vars

----------------------------------------------------------------------------
(* Enumeration failure: the OS stops answering the device list query.     *)

\* AudioObjectGetPropertyDataSize(kAudioHardwarePropertyDevices) starts to
\* fail (b = FALSE) or answers again (b = TRUE).
OsSetEnumOk(b) ==
    /\ panicked = "none"
    /\ osEnumOk # b
    /\ osEnumOk' = b
    /\ osLeft > 0
    /\ osLeft' = osLeft - 1
    /\ op' = [name |-> "os", channel |-> ""]
    /\ trip' = None
    /\ taken' = {}
    /\ UNCHANGED <<devices, mutes, active_input, active_output, panicked>>
    /\ UNCHANGED <<osDevs, osVol, osMute, osDefault, osWriteOk, queue, mode, handling>>

NextEnum ==
    \/ Next
    \/ \E b \in BOOLEAN : OsSetEnumOk(b)

\* At most DeepOsChanges changes in a run, the failing and the recovery of
\* the enumeration among them.
SpecEnum == InitDeep /\ [][NextEnum]_vars

\* C18: when the OS cannot report the device list during a refresh, the
\* refresh hands an error to its caller, which goes on running, and the
\* devices cached before the refresh are cached after it.
C18_EnumFailureReported ==
    [][(op'.name = "update" /\ ~osEnumOk)
          => /\ panicked' = "none"
             /\ DeviceSet(devices') = DeviceSet(devices)]_vars

----------------------------------------------------------------------------

\* A refresh is about to meet a cached, enumerated device with a direction
\* whose native mute flag reads false or is absent, the cache of that
\* direction in step with the OS.
FlagNotRaised(id, channel) ==
    /\ id \in Ids(devices)
    /\ id \in osDevs
    /\ osMute[id][channel] # Some(TRUE)
    /\ IsSome(osVol[id][channel])
    /\ Dev(devices, id)[ChanField(channel)].enabled
    /\ Dev(devices, id)[ChanField(channel)].level = OsLevel(osVol, id, channel)

\* C19: the Mute-Workaround Check of a refresh leaves a direction whose
\* native flag read false or is absent untouched (OS scalar, level and
\* cache), and clears the flag of a direction whose flag read true.
C19_TakeoverByFlag ==
    [][\A id \in DeviceIds : \A c \in Channel :
          /\ (op'.name = "update" /\ FlagNotRaised(id, c))
                => /\ osVol'[id][c] = osVol[id][c]
                   /\ Dev(devices', id)[ChanField(c)].level = OsLevel(osVol, id, c)
                   /\ Dev(devices', id)[ChanField(c)].cache
                          = Dev(devices, id)[ChanField(c)].cache
          /\ (op'.name = "update" /\ id \in Ids(devices) /\ osMute[id][c] = Some(TRUE))
                => osMute'[id][c] = Some(FALSE)]_vars

----------------------------------------------------------------------------

\* The step is a refresh that passes is_muted as read from the Mute Set and
\* asks for no preservation of the cache: the one of Action::Poll, or the one
\* ending a move_volume that reached its write.
PlainRefresh ==
    \/ op'.name = "update"
    \/ /\ op'.name = "move_volume"
       /\ \E i \in DOMAIN devices : MovesSelected(op'.channel, devices[i])

\* C20: after a poll refresh or the refresh ending move_volume, every
\* readable direction of every device cached before and after, with no
\* native mute flag set, has cache = level = the OS scalar just read.
\* Stated for the devices outside the Mute Set, whose cache holds no level
\* saved by a mute.
C20_RestorePointFollows ==
    [][\A id \in DeviceIds : \A c \in Channel :
          (/\ PlainRefresh
           /\ id \in Ids(devices) \cap Ids(devices')
           /\ mutes[id] = 0
           /\ \A k \in Channel : osMute[id][k] # Some(TRUE)
           /\ IsSome(osVol'[id][c]))
              => /\ Dev(devices', id)[ChanField(c)].level = OsLevel(osVol', id, c)
                 /\ Dev(devices', id)[ChanField(c)].cache = OsLevel(osVol', id, c)]_vars

----------------------------------------------------------------------------
(* main(): three producer threads, one channel, one consumer loop *)

\* Messages the channel may hold at once (mpsc::channel() itself is unbounded).
MaxQueue == 1

\* An Action of events.rs; arg is the UiMode of a ModeSwitch, "" otherwise.
Msg(act, arg) == [act |-> act, arg |-> arg]

\* What the event tap hands to its handler.
TapActions == {Msg("KeyDown", ""), Msg("KeyUp", ""), Msg("Modifier", "")}

\* What the terminal keys are turned into.
KeyActions ==
    {Msg("Exit", ""), Msg("SelectPrev", ""), Msg("SelectNext", ""),
     Msg("VolumeDown", ""), Msg("VolumeUp", ""), Msg("ToggleMute", "")}
    \cup {Msg("ModeSwitch", m) : m \in {"EditInput", "EditOutput", "View"}}

\* What the 500 ms timer sends.
TimerActions == {Msg("Poll", "")}

EngineActs == {"Poll", "VolumeDown", "VolumeUp", "ToggleMute"}

\* tx.send(action) from a producer thread: the only thing its closure does.
send(a) ==
    /\ panicked = "none"
    /\ Len(queue) < MaxQueue
    /\ queue' = Append(queue, a)
    /\ op' = [name |-> "main", channel |-> ""]
    /\ UNCHANGED <<devices, mutes, active_input, active_output, panicked,
                   osDevs, osVol, osMute, osDefault, osLeft, trip, taken,
                   osEnumOk, osWriteOk, mode, handling>>

Tap == \E a \in TapActions : send(a)

Stdin == \E a \in KeyActions : send(a)

Timer == \E a \in TimerActions : send(a)

CanRecv_any == TRUE

\* The consumer is at rx.recv(): the arm of the previous Action has ended.
CanRecv == handling = <<>>

\* rx.recv().unwrap() returning the oldest Action.
Recv ==
    /\ panicked = "none"
    /\ CanRecv
    /\ queue # <<>>
    /\ handling' = Append(handling, Head(queue))
    /\ queue' = Tail(queue)
    /\ op' = [name |-> "main", channel |-> ""]
    /\ UNCHANGED <<devices, mutes, active_input, active_output, panicked,
                   osDevs, osVol, osMute, osDefault, osLeft, trip, taken,
                   osEnumOk, osWriteOk, mode>>

\* The consumer is inside the arm of Action act.
Handling(act) == handling # <<>> /\ Head(handling).act = act

\* An arm that ends without calling update, move_volume or toggle_mute.
Arm ==
    /\ panicked = "none"
    /\ handling' = <<>>
    /\ op' = [name |-> "main", channel |-> ""]
    /\ UNCHANGED <<devices, mutes, panicked, osDevs, osVol, osMute, osDefault,
                   osLeft, trip, taken, osEnumOk, osWriteOk, queue>>

\* KeyDown, KeyUp, Modifier: state.keys, state.key_modifiers and a draw.
HandleKey ==
    /\ \E a \in TapActions : Handling(a.act)
    /\ Arm
    /\ UNCHANGED <<active_input, active_output, mode>>

HandleModeSwitch ==
    /\ Handling("ModeSwitch")
    /\ Arm
    /\ mode' = Head(handling).arg
    /\ UNCHANGED <<active_input, active_output>>

\* The direction the mode edits; `_ => continue` in View.
EditChannel == IF mode = "EditInput" THEN "Input" ELSE "Output"

\* `_ => continue`: the arm of a command received in View mode.
HandleInView ==
    /\ \E act \in {"SelectPrev", "SelectNext", "VolumeDown", "VolumeUp", "ToggleMute"} :
          Handling(act)
    /\ mode = "View"
    /\ Arm
    /\ UNCHANGED <<active_input, active_output, mode>>

\* SelectNext / SelectPrev outside View call next_input(), next_output(),
\* prev_input(), prev_output(), which audio.rs does not define: the call is
\* taken to move the Selection of the edited direction to any index or to
\* none, and nothing else.
HandleSelect ==
    /\ Handling("SelectPrev") \/ Handling("SelectNext")
    /\ mode # "View"
    /\ Arm
    /\ \E s \in {None} \cup {Some(i - 1) : i \in DOMAIN devices} :
          IF EditChannel = "Input"
          THEN active_input' = s /\ UNCHANGED active_output
          ELSE active_output' = s /\ UNCHANGED active_input
    /\ UNCHANGED mode

\* Action::Exit => break: main returns and the process ends.
HandleExit ==
    /\ Handling("Exit")
    /\ handling' = <<>>
    /\ panicked' = "exit"
    /\ op' = [name |-> "exit", channel |-> ""]
    /\ UNCHANGED <<devices, mutes, active_input, active_output,
                   osDevs, osVol, osMute, osDefault, osLeft, trip, taken,
                   osEnumOk, osWriteOk, queue, mode>>

\* The arms that call the engine.
HandleEngine ==
    \/ Handling("Poll") /\ Poll
    \/ Handling("VolumeUp") /\ mode # "View" /\ move_volume(EditChannel, 1)
    \/ Handling("VolumeDown") /\ mode # "View" /\ move_volume(EditChannel, -1)
    \/ Handling("ToggleMute") /\ mode # "View" /\ toggle_mute(EditChannel)

Handle ==
    \/ HandleKey
    \/ HandleModeSwitch
    \/ HandleInView
    \/ HandleSelect
    \/ HandleExit
    \/ HandleEngine

\* The OS as main() finds it: the headset connected, nothing changing
\* underneath while the threads run.
InitMain == BootOs /\ new /\ AppStart /\ osLeft = 0 /\ osDevs = {1}

NextMain ==
    \/ Tap
    \/ Stdin
    \/ Timer
    \/ Recv
    \/ Handle

SpecMain == InitMain /\ [][NextMain]_vars

\* The step runs an engine operation.
EngineStep == op'.name \in {"update", "move_volume", "toggle_mute"}

\* C15: whatever the three producers send and whenever, the engine
\* operations are run by the consumer loop alone and one at a time: at most
\* one Action is in hand, an Action is taken off the channel only when none
\* is in hand, the engine's state and the OS change only in a step of the
\* consumer that ends the arm of the Action in hand, and update,
\* move_volume and toggle_mute run only in the arm of Poll, VolumeUp /
\* VolumeDown and ToggleMute.
C15_SingleConsumer ==
    /\ [](Len(handling) <= 1)
    /\ [][Len(queue') < Len(queue) => (handling = <<>> /\ Len(handling') = 1)]_vars
    /\ [][(<<devices, mutes, active_input, active_output, osVol, osMute>>'
              # <<devices, mutes, active_input, active_output, osVol, osMute>>)
             => (Len(handling) = 1 /\ handling' = <<>> /\ queue' = queue)]_vars
    /\ [][EngineStep
             => /\ Len(handling) = 1 /\ handling' = <<>> /\ queue' = queue
                /\ Head(handling).act \in EngineActs
                /\ (op'.name = "update") = (Head(handling).act = "Poll")
                /\ (op'.name = "toggle_mute") = (Head(handling).act = "ToggleMute")]_vars

\* An engine command has just ended and changed the OS, with the channel
\* filled by the key tap since the command was received.
C15_Witness ==
    /\ op.name \in {"move_volume", "toggle_mute"}
    /\ handling = <<>>
    /\ Len(queue) = MaxQueue
    /\ \A i \in DOMAIN queue : queue[i] \in TapActions
    /\ \E c \in Channel : osVol[1][c] = Some(ZERO)

----------------------------------------------------------------------------

\* The step runs self.update() to its end: Action::Poll's, or the one ending
\* a move_volume or toggle_mute that found a device selected.
Refreshes ==
    /\ panicked' = "none"
    /\ \/ op'.name = "update"
       \/ /\ op'.name \in {"move_volume", "toggle_mute"}
          /\ IsSome(Selected(op'.channel))

\* The refresh of the step meets cached device id with no native mute flag
\* set and reads level l on the channel.
Reads(id, channel, l) ==
    /\ Refreshes
    /\ id \in Ids(devices)
    /\ id \in osDevs
    /\ \A k \in Channel : osMute[id][k] # Some(TRUE)
    /\ osVol'[id][channel] = Some(l)

\* C21: a refresh that reads a level above zero on some direction of a
\* cached device whose id is in the Mute Set, no native flag set, leaves the
\* id out of the Mute Set.
C21_ImplicitUnmute ==
    [][\A id \in DeviceIds : \A c \in Channel : \A l \in Levels :
          (Reads(id, c, l) /\ l > ZERO /\ mutes[id] > 0) => mutes'[id] = 0]_vars


\* C22: a refresh that reads level zero on some direction of a device cached
\* before and after it, whose id is not in the Mute Set, leaves the id in
\* the Mute Set, whoever brought the level to zero.
C22_ImplicitMute ==
    [][\A id \in DeviceIds : \A c \in Channel :
          (/\ Reads(id, c, ZERO)
           /\ id \in Ids(devices')
           /\ mutes[id] = 0) => mutes'[id] > 0]_vars

\* The OS brought a level to zero, and the refresh of Action::Poll has put
\* the id into the Mute Set.
C22_Witness ==
    /\ op.name = "update"
    /\ taken = {}
    /\ \E id \in Ids(devices) :
          /\ mutes[id] > 0
          /\ \E c \in Channel :
                /\ osVol[id][c] = Some(ZERO)
                /\ Dev(devices, id)[ChanField(c)].cache > ZERO
                /\ Settable(id, c)
          /\ \E c \in Channel : IsSome(osVol[id][c]) /\ OsLevel(osVol, id, c) > ZERO

----------------------------------------------------------------------------

\* The refresh of Action::Poll has just taken over cached device id, and the
\* next step is the refresh of the next Action::Poll: the OS and the
\* hardware have changed nothing in between.
PollsAfterTakeover(id) ==
    /\ op.name = "update"
    /\ op'.name = "update"
    /\ panicked' = "none"
    /\ id \in Ids(devices)
    /\ id \in osDevs
    /\ mutes[id] > 0
    /\ \E c \in Channel : <<id, c>> \in taken

\* C23: once a refresh has taken a device over, a further refresh with no
\* change by the OS in between finds no native mute flag set for it, leaves
\* its OS scalars and native flags as they are and its caches at the
\* pre-mute levels.
C23_NoRetrigger ==
    [][\A id \in DeviceIds :
          PollsAfterTakeover(id)
              => /\ osVol'[id] = osVol[id]
                 /\ osMute'[id] = osMute[id]
                 /\ \A c \in Channel :
                       /\ <<id, c>> \notin taken'
                       /\ Dev(devices', id)[ChanField(c)].cache
                              = Dev(devices, id)[ChanField(c)].cache]_vars

----------------------------------------------------------------------------

\* The Selection of the channel designates the cached device with this id.
Designates(devs, sel, id) ==
    /\ IsSome(sel)
    /\ Unwrap(sel) < Len(devs)
    /\ devs[Unwrap(sel) + 1].id = id

\* C24: after a refresh for which the default device the OS reports for a
\* direction is the id of a cached device, the Selection of the direction
\* designates that device, device_list() marks it and only it as active for
\* the direction, and a move_volume or toggle_mute for the direction that
\* follows the refresh of a poll writes the OS scalar of that id and of that
\* direction only.
C24_SelectionTracksDefault ==
    /\ [][Refreshes =>
             \A l \in {device_list(devices', active_input', active_output', mutes')} :
                 \A c \in Channel :
                    default_device(c) \in Ids(devices')
                        => /\ Designates(devices', Selected(c)', default_device(c))
                           /\ \A k \in DOMAIN l :
                                 l[k][IF c = "Input" THEN 1 ELSE 2]
                                     = (l[k][4].id = default_device(c))]_vars
    /\ [][\A c \in Channel :
             (/\ op.name = "update"
              /\ default_device(c) \in Ids(devices)
              /\ op'.name \in {"move_volume", "toggle_mute"}
              /\ op'.channel = c)
                 => \A id \in DeviceIds : \A k \in Channel :
                       osVol'[id][k] # osVol[id][k]
                           => (id = default_device(c) /\ k = c)]_vars

\* A poll has moved the input Selection to the device cached second, and the
\* output Selection rests on the device cached first.
C24_Witness ==
    /\ op.name = "update"
    /\ Len(devices) = 2
    /\ Designates(devices, active_input, default_device("Input"))
    /\ Designates(devices, active_output, default_device("Output"))
    /\ active_input = Some(1)
    /\ active_output = Some(0)
    /\ osLeft < MaxOsChanges

----------------------------------------------------------------------------
(* Rejected writes: the OS starts to refuse AudioObjectSetPropertyData.    *)

OsRejectWrites ==
    /\ panicked = "none"
    /\ osWriteOk
    /\ osWriteOk' = FALSE
    /\ osLeft > 0
    /\ osLeft' = osLeft - 1
    /\ op' = [name |-> "os", channel |-> ""]
    /\ trip' = None
    /\ taken' = {}
    /\ UNCHANGED <<devices, mutes, active_input, active_output, panicked>>
    /\ UNCHANGED <<osDevs, osVol, osMute, osDefault, osEnumOk, queue, mode, handling>>

NextReject ==
    \/ Next
    \/ OsRejectWrites

SpecReject == Init /\ [][NextReject]_vars

\* C25: while the OS rejects the scalar and native-mute writes, move_volume,
\* toggle_mute and a refresh still run to their end: none of them stops in a
\* panic.
C25_RejectedWriteSkipped ==
    [][(~osWriteOk /\ op'.name \in {"update", "move_volume", "toggle_mute"})
          => panicked' = "none"]_vars

----------------------------------------------------------------------------
(* main() while the headset may be disconnected; the consumer thread runs   *)
(* whenever it can (recv() returns when an Action waits, an arm ends).      *)

InitLive == BootOs /\ new /\ AppStart /\ osLeft = MaxOsChanges /\ osDevs = {1}

NextLive ==
    \/ NextMain
    \/ \E id \in DeviceIds : OsUnplug(id)

SpecLive == InitLive /\ [][NextLive]_vars /\ WF_vars(Recv) /\ WF_vars(Handle)

\* An Action::Poll sent by the timer waits in the channel.
PollQueued == \E i \in DOMAIN queue : queue[i].act = "Poll"

\* C26: unless Exit is processed, a Poll that waits in the channel is
\* received by the consumer, and a Poll received is followed by the end of
\* its refresh; once Exit is processed no engine operation runs.
C26_PollLiveness ==
    /\ PollQueued ~> (Handling("Poll") \/ panicked = "exit")
    /\ Handling("Poll") ~> (handling = <<>> /\ op.name = "update")
    /\ [][panicked = "exit" => ~EngineStep]_vars

----------------------------------------------------------------------------

\* C27: a Selection that is not none is an index into the cached devices:
\* move_volume and toggle_mute never index past the end of the list.
C27_SelectionInRange ==
    /\ \A c \in Channel : IsSome(Selected(c)) => Unwrap(Selected(c)) < Len(devices)
    /\ panicked # "index out of bounds"


\* C28: no device id occurs more than once in `mutes`.
C28_MuteSetIsSet == \A id \in DeviceIds : mutes[id] <= 1


\* C29: with the OS left as it is and no native mute flag set, a refresh
\* that follows a refresh leaves every cached id in the Mute Set or out of
\* it as it was: what device_list(), input(id) and output(id) report as
\* engine-muted does not change from poll to poll.
C29_MuteStatusStable ==
    [][(/\ op.name = "update"
        /\ op'.name = "update"
        /\ panicked' = "none"
        /\ \A id \in DeviceIds : \A c \in Channel : osMute[id][c] # Some(TRUE))
          => \A id \in Ids(devices) :
                contains(mutes', id) = contains(mutes, id)]_vars

====
